---- MODULE Spec2Model ----
(***************************************************************************)
(* Model of src/generator.py: the QRCodeGenerator form.                    *)
(*                                                                         *)
(* Text is a sequence of one-character strings.  The three button          *)
(* callbacks are generate_qr_code, save_qr_code and clear_form.            *)
(* generate_qr_code pumps the Tk event loop (root.update(), line 270)      *)
(* after reading the entry and before reading the tiers, so it is two      *)
(* steps: generate_qr_code (lines 260-270) suspends a frame on `stack`,    *)
(* and generate_qr_code_resume (lines 272-317) finishes the innermost      *)
(* suspended frame.  Whatever Tk dispatches while a frame is suspended     *)
(* runs as an ordinary step in between.                                    *)
(*                                                                         *)
(* The callbacks are modelled as calls of the methods: save_qr_code is     *)
(* callable whatever the state of save_btn (line 325 guards that case),    *)
(* except from inside root.update(), where only Tk runs callbacks.         *)
(***************************************************************************)
EXTENDS Integers, Sequences, FiniteSets

VARIABLES
    url_entry,     \* text of self.url_entry
    size_var,      \* self.size_var
    error_var,     \* self.error_var
    qr_image,      \* self.qr_image
    current_data,  \* self.current_data
    save_btn,      \* state of self.save_btn
    qr_label,      \* image and text of self.qr_label
    status_var,    \* self.status_var
    stack,         \* generate_qr_code activations suspended in root.update()
    last           \* the callback step that ran last and the external calls it made

vars == <<url_entry, size_var, error_var, qr_image, current_data, save_btn,
          qr_label, status_var, stack, last>>

(* ------------------------------ bounds --------------------------------- *)

\* Depth of generate_qr_code activations nested through root.update().
MaxDepth == 1

\* Length of the long input (longer than the status truncation).
LongLen == 52

(* ------------------------------- text ---------------------------------- *)

Whitespace == {" ", "\t", "\n", "\r"}

RECURSIVE lstrip(_)
lstrip(s) ==
    IF s = <<>> THEN s
    ELSE IF Head(s) \in Whitespace THEN lstrip(Tail(s)) ELSE s

RECURSIVE rstrip(_)
rstrip(s) ==
    IF s = <<>> THEN s
    ELSE IF s[Len(s)] \in Whitespace THEN rstrip(SubSeq(s, 1, Len(s) - 1)) ELSE s

\* str.strip()
strip_identity(s) == s
strip(s) == rstrip(lstrip(s))

\* s[:n]
Slice(s, n) == IF Len(s) <= n THEN s ELSE SubSeq(s, 1, n)

StatusLen == 50

\* data[:50] of line 309
status_slice(data) == Slice(data, StatusLen)

RECURSIVE basename(_)
\* os.path.basename: what follows the last "/"
basename(p) ==
    IF \E i \in 1..Len(p) : p[i] = "/"
    THEN basename(Tail(p))
    ELSE p

Placeholder ==
    <<"h","t","t","p","s",":","/","/","e","x","a","m","p","l","e",".","c","o","m">>

LongText == <<" ">> \o [i \in 1..LongLen |-> "x"] \o <<"\t">>

\* What the user may type into the entry: nothing, an all-whitespace text
\* (which strip() empties), a padded text longer than the status slice, and
\* the placeholder.
TextInputs ==
    { <<>>,
      <<" ", "\t">>,
      LongText,
      Placeholder }

\* What the save dialog may return; <<>> is a cancelled dialog.
SavePaths == { <<"/","t","/","q",".","p","n","g">> }

(* ------------------------------ values --------------------------------- *)

None == [kind |-> "None"]

SizeChoices == {"Small", "Medium", "Large"}
ErrorChoices == {"Low", "Medium", "High", "Highest"}

\* Values a tier variable may hold when it is not set through the comboboxes.
TierInputs == SizeChoices \cup ErrorChoices \cup {"", "Huge"}

\* The PhotoImage shown by qr_label; which image it was made from is not kept.
PhotoImage == [kind |-> "PhotoImage"]

Status(text, arg) == [text |-> text, arg |-> arg]

Dialog(kind, message) == [kind |-> kind, message |-> message]

Step(op, result, text, msgbox, encoder, asked, wrote) ==
    [op |-> op, result |-> result, text |-> text, msgbox |-> msgbox,
     encoder |-> encoder, asked |-> asked, wrote |-> wrote]

(* ------------------------- parameter resolver -------------------------- *)

get_size_params_nofallback(v) ==
    CASE v = "Small" -> <<8, 2>>
      [] v = "Medium" -> <<10, 4>>
      [] v = "Large" -> <<15, 6>>
      [] OTHER -> <<8, 2>>

get_size_params(v) ==
    CASE v = "Small" -> <<8, 2>>
      [] v = "Medium" -> <<10, 4>>
      [] v = "Large" -> <<15, 6>>
      [] OTHER -> <<10, 4>>

get_error_correction(v) ==
    CASE v = "Low" -> "ERROR_CORRECT_L"
      [] v = "Medium" -> "ERROR_CORRECT_M"
      [] v = "High" -> "ERROR_CORRECT_Q"
      [] v = "Highest" -> "ERROR_CORRECT_H"
      [] OTHER -> "ERROR_CORRECT_M"

\* The arguments of qrcode.QRCode(...) and qr.add_data(data); make_image
\* returns the image of exactly these.
QRCode(data, error_correction, params) ==
    [data |-> data, error_correction |-> error_correction,
     box_size |-> params[1], border |-> params[2]]

(* ------------------------------- Init ---------------------------------- *)

InitWidgets ==
    /\ url_entry = Placeholder
    /\ qr_image = None
    /\ current_data = <<>>
    /\ save_btn = "disabled"
    /\ qr_label = [image |-> None, text |-> "QR Code will appear here"]
    /\ status_var = Status("Ready to generate QR codes", <<>>)
    /\ stack = <<>>
    /\ last = Step("__init__", "ok", <<>>, <<>>, <<>>, FALSE, <<>>)

Init ==
    /\ InitWidgets
    /\ size_var = "Medium"
    /\ error_var = "Medium"

\* The form with the tier variables holding any value, also ones the
\* comboboxes do not offer.
InitResolver ==
    /\ InitWidgets
    /\ size_var \in TierInputs
    /\ error_var \in TierInputs

(* ------------------------------ widgets -------------------------------- *)

\* The user edits the entry.
url_entry_edit ==
    \E t \in TextInputs :
        /\ t # url_entry
        /\ url_entry' = t
        /\ last' = Step("url_entry", "ok", <<>>, <<>>, <<>>, FALSE, <<>>)
        /\ UNCHANGED <<size_var, error_var, qr_image, current_data, save_btn,
                       qr_label, status_var, stack>>

\* The user picks a size in the read-only combobox.
size_combo_select ==
    \E s \in SizeChoices :
        /\ s # size_var
        /\ size_var' = s
        /\ last' = Step("size_combo", "ok", <<>>, <<>>, <<>>, FALSE, <<>>)
        /\ UNCHANGED <<url_entry, error_var, qr_image, current_data, save_btn,
                       qr_label, status_var, stack>>

\* The user picks an error-correction level in the read-only combobox.
error_combo_select ==
    \E e \in ErrorChoices :
        /\ e # error_var
        /\ error_var' = e
        /\ last' = Step("error_combo", "ok", <<>>, <<>>, <<>>, FALSE, <<>>)
        /\ UNCHANGED <<url_entry, size_var, qr_image, current_data, save_btn,
                       qr_label, status_var, stack>>

(* --------------------------- generate_qr_code -------------------------- *)

EmptyInputError ==
    Dialog("showerror", "Please enter a URL or text to generate QR code")

GenerateError == Dialog("showerror", "Failed to generate QR code: {e}")

\* Lines 260-270: read and validate the entry, then pump the event loop.
generate_qr_code ==
    LET text == url_entry
        data == strip(text)
    IN  IF data = <<>>
        THEN /\ last' = Step("generate_qr_code", "empty_input", text,
                             <<EmptyInputError>>, <<>>, FALSE, <<>>)
             /\ UNCHANGED <<url_entry, size_var, error_var, qr_image,
                            current_data, save_btn, qr_label, status_var, stack>>
        ELSE /\ Len(stack) < MaxDepth
             /\ status_var' = Status("Generating QR code...", <<>>)
             /\ stack' = Append(stack, [text |-> text, data |-> data])
             /\ last' = Step("generate_qr_code", "pumping", text,
                             <<>>, <<>>, FALSE, <<>>)
             /\ UNCHANGED <<url_entry, size_var, error_var, qr_image,
                            current_data, save_btn, qr_label>>

encoder_raised_clears(frame, call) ==
    /\ qr_image' = None
    /\ save_btn' = "disabled"
    /\ status_var' = Status("Error generating QR code", <<>>)
    /\ last' = Step("generate_qr_code_resume", "encoder_raised", frame.text,
                    <<GenerateError>>, <<call>>, FALSE, <<>>)
    /\ UNCHANGED <<current_data, qr_label>>

encoder_raised_silent(frame, call) ==
    /\ last' = Step("generate_qr_code_resume", "encoder_raised", frame.text,
                    <<GenerateError>>, <<call>>, FALSE, <<>>)
    /\ UNCHANGED <<qr_image, current_data, save_btn, qr_label, status_var>>

\* Lines 276-289 raise: nothing is assigned before the except clause.
encoder_raised(frame, call) ==
    /\ status_var' = Status("Error generating QR code", <<>>)
    /\ last' = Step("generate_qr_code_resume", "encoder_raised", frame.text,
                    <<GenerateError>>, <<call>>, FALSE, <<>>)
    /\ UNCHANGED <<qr_image, current_data, save_btn, qr_label>>

\* Lines 293-299 raise: self.qr_image was assigned at line 289.
display_raised(frame, call) ==
    /\ qr_image' = call
    /\ status_var' = Status("Error generating QR code", <<>>)
    /\ last' = Step("generate_qr_code_resume", "display_raised", frame.text,
                    <<GenerateError>>, <<call>>, FALSE, <<>>)
    /\ UNCHANGED <<current_data, save_btn, qr_label>>

\* Lines 289-312 without an exception.
generated_keeps_data(frame, call) ==
    /\ qr_image' = call
    /\ qr_label' = [image |-> PhotoImage, text |-> ""]
    /\ UNCHANGED current_data
    /\ save_btn' = "normal"
    /\ status_var' = Status("QR code generated successfully for: {}...",
                            status_slice(frame.data))
    /\ last' = Step("generate_qr_code_resume", "generated", frame.text,
                    <<>>, <<call>>, FALSE, <<>>)

generated(frame, call) ==
    /\ qr_image' = call
    /\ qr_label' = [image |-> PhotoImage, text |-> ""]
    /\ current_data' = frame.data
    /\ save_btn' = "normal"
    /\ status_var' = Status("QR code generated successfully for: {}...",
                            status_slice(frame.data))
    /\ last' = Step("generate_qr_code_resume", "generated", frame.text,
                    <<>>, <<call>>, FALSE, <<>>)

\* Lines 272-317: root.update() has returned to the innermost activation.
generate_qr_code_resume ==
    /\ stack # <<>>
    /\ LET frame == stack[Len(stack)]
           call == QRCode(frame.data, get_error_correction(error_var),
                          get_size_params(size_var))
       IN  \/ encoder_raised(frame, call)
           \/ display_raised(frame, call)
           \/ generated(frame, call)
    /\ stack' = SubSeq(stack, 1, Len(stack) - 1)
    /\ UNCHANGED <<url_entry, size_var, error_var>>

(* ----------------------------- save_qr_code ---------------------------- *)

NoArtifactWarning ==
    Dialog("showwarning", "No QR code to save. Please generate one first.")

SaveError == Dialog("showerror", "Failed to save QR code: {e}")

SaveInfo == Dialog("showinfo", "QR code saved successfully to:\n{filename}")

\* Line 325
nothing_to_save_never == FALSE
nothing_to_save == qr_image = None

\* Lines 329-356 with the dialog returning filename and the write doing `write`.
save_as_touching_status(filename, write) ==
    IF filename = <<>>
    THEN /\ status_var' = Status("Error saving QR code", <<>>)
         /\ last' = Step("save_qr_code", "cancelled", <<>>, <<>>, <<>>, TRUE, <<>>)
    ELSE IF write = "ok"
    THEN /\ status_var' = Status("QR code saved to: {}", basename(filename))
         /\ last' = Step("save_qr_code", "saved", <<>>, <<SaveInfo>>, <<>>,
                         TRUE, <<filename>>)
    ELSE /\ status_var' = Status("Error saving QR code", <<>>)
         /\ last' = Step("save_qr_code", "write_raised", <<>>, <<SaveError>>, <<>>,
                         TRUE, <<filename>>)

save_as(filename, write) ==
    IF filename = <<>>
    THEN /\ UNCHANGED status_var
         /\ last' = Step("save_qr_code", "cancelled", <<>>, <<>>, <<>>, TRUE, <<>>)
    ELSE IF write = "ok"
    THEN /\ status_var' = Status("QR code saved to: {}", basename(filename))
         /\ last' = Step("save_qr_code", "saved", <<>>, <<SaveInfo>>, <<>>,
                         TRUE, <<filename>>)
    ELSE /\ status_var' = Status("Error saving QR code", <<>>)
         /\ last' = Step("save_qr_code", "write_raised", <<>>, <<SaveError>>, <<>>,
                         TRUE, <<filename>>)

\* Inside root.update() only Tk runs the callback, and Tk does not run the
\* command of a disabled button; otherwise the method is called directly.
save_qr_code ==
    /\ stack # <<>> => save_btn = "normal"
    /\ IF nothing_to_save
       THEN /\ last' = Step("save_qr_code", "no_artifact", <<>>,
                            <<NoArtifactWarning>>, <<>>, FALSE, <<>>)
            /\ UNCHANGED status_var
       ELSE \E filename \in SavePaths \cup {<<>>}, write \in {"ok", "raise"} :
                save_as(filename, write)
    /\ UNCHANGED <<url_entry, size_var, error_var, qr_image, current_data,
                   save_btn, qr_label, stack>>

(* ------------------------------ clear_form ----------------------------- *)

clear_form_keeps_tiers ==
    /\ url_entry' = Placeholder
    /\ qr_label' = [image |-> None, text |-> "QR Code will appear here"]
    /\ qr_image' = None
    /\ save_btn' = "disabled"
    /\ status_var' = Status("Form cleared - Ready to generate QR codes", <<>>)
    /\ last' = Step("clear_form", "ok", <<>>, <<>>, <<>>, FALSE, <<>>)
    /\ UNCHANGED <<size_var, error_var, current_data, stack>>

clear_form ==
    /\ url_entry' = Placeholder
    /\ qr_label' = [image |-> None, text |-> "QR Code will appear here"]
    /\ qr_image' = None
    /\ size_var' = "Medium"
    /\ error_var' = "Medium"
    /\ save_btn' = "disabled"
    /\ status_var' = Status("Form cleared - Ready to generate QR codes", <<>>)
    /\ last' = Step("clear_form", "ok", <<>>, <<>>, <<>>, FALSE, <<>>)
    /\ UNCHANGED <<current_data, stack>>

(* ---------------------------- specifications --------------------------- *)

Next ==
    \/ url_entry_edit
    \/ size_combo_select
    \/ error_combo_select
    \/ generate_qr_code
    \/ generate_qr_code_resume
    \/ save_qr_code
    \/ clear_form

Spec == Init /\ [][Next]_vars

\* The resolver applied to every tier value: only generate runs.
NextResolver ==
    \/ generate_qr_code
    \/ generate_qr_code_resume

SpecResolver == InitResolver /\ [][NextResolver]_vars

(* ------------------------- properties of the form ---------------------- *)

Ready == qr_image # None
Empty == qr_image = None

IsBlank(text) == \A i \in 1..Len(text) : text[i] \in Whitespace

\* t is text without its leading and trailing whitespace.
IsTrimOf(t, text) ==
    \E i \in 0..Len(text) :
        /\ i + Len(t) <= Len(text)
        /\ \A k \in 1..i : text[k] \in Whitespace
        /\ \A k \in 1..Len(t) : t[k] = text[i + k]
        /\ \A k \in (i + Len(t) + 1)..Len(text) : text[k] \in Whitespace
        /\ t # <<>> => (t[1] \notin Whitespace /\ t[Len(t)] \notin Whitespace)

\* a is the first n characters of s (all of s when it is shorter).
IsFirstChars(a, s, n) ==
    /\ Len(a) = (IF Len(s) < n THEN Len(s) ELSE n)
    /\ \A k \in 1..Len(a) : a[k] = s[k]

\* C1: the save button is enabled if and only if an artifact is held.
C1_SaveEnabledIffArtifact == (save_btn = "normal") <=> (qr_image # None)

C3_EncoderFailureKeepsArtifact ==
    [][(last'.op = "generate_qr_code"
          \/ (last'.op = "generate_qr_code_resume" /\ last'.result = "encoder_raised"))
       => UNCHANGED <<qr_image, current_data, save_btn>>]_vars

\* The encoder raised in Ready and the artifact of the earlier generate is held.
C3_Witness ==
    /\ last.result = "encoder_raised"
    /\ Ready
    /\ save_btn = "normal"
    /\ current_data = qr_image.data

\* C4: generate on an empty or all-whitespace entry shows the empty-input
\* error, does not call the encoder and leaves qr_image, current_data and
\* the save button unchanged.
C4_BlankInputRejected ==
    [][(last'.op = "generate_qr_code" /\ IsBlank(url_entry))
       => /\ last'.result = "empty_input"
          /\ last'.msgbox = <<EmptyInputError>>
          /\ last'.encoder = <<>>
          /\ UNCHANGED <<qr_image, current_data, save_btn, stack>>]_vars

\* A whitespace-only entry was rejected in Ready.
C4_Witness ==
    /\ last.op = "generate_qr_code"
    /\ last.result = "empty_input"
    /\ last.text # <<>>
    /\ Ready
    /\ save_btn = "normal"

\* C5: save with no artifact held shows the no-artifact warning and neither
\* asks for a path nor writes.
C5_SaveWithoutArtifact ==
    [][(last'.op = "save_qr_code" /\ qr_image = None)
       => /\ last'.result = "no_artifact"
          /\ last'.msgbox = <<NoArtifactWarning>>
          /\ last'.asked = FALSE
          /\ last'.wrote = <<>>]_vars

\* Save was refused after a generate that failed in the encoder.
C5_Witness ==
    /\ last.op = "save_qr_code"
    /\ last.result = "no_artifact"
    /\ status_var.text = "Error generating QR code"
    /\ Empty

\* C6: save in Ready keeps the artifact, current_data and the tiers whatever
\* its outcome, and a cancelled dialog changes nothing: no write, no message,
\* the same status.
C6_SaveKeepsReady ==
    [][(last'.op = "save_qr_code" /\ qr_image # None)
       => /\ last'.asked = TRUE
          /\ UNCHANGED <<qr_image, current_data, size_var, error_var, save_btn>>
          /\ last'.wrote = <<>>
                => (last'.result = "cancelled" /\ last'.msgbox = <<>>
                    /\ UNCHANGED status_var)]_vars

\* A dialog was cancelled in Ready, right after a successful generate.
C6_Witness ==
    /\ last.op = "save_qr_code"
    /\ last.result = "cancelled"
    /\ Ready
    /\ status_var.text = "QR code generated successfully for: {}..."

\* C7: after clear_form no artifact is held, both tiers are Medium, the
\* entry holds the placeholder, save is disabled and no error was shown.
C7_ClearResets ==
    last.op = "clear_form"
        => /\ qr_image = None
           /\ size_var = "Medium"
           /\ error_var = "Medium"
           /\ url_entry = Placeholder
           /\ save_btn = "disabled"
           /\ last.result = "ok"
           /\ last.msgbox = <<>>

\* clear_form ran after a generate had succeeded, while another generate was
\* suspended in root.update().
C7_Witness ==
    /\ last.op = "clear_form"
    /\ current_data # <<>>
    /\ stack # <<>>

\* The parameters the encoder is called with, against the tier variables.
C8_Table ==
    last.encoder # <<>> =>
        LET call == last.encoder[1] IN
        /\ size_var = "Small" => (call.box_size = 8 /\ call.border = 2)
        /\ size_var = "Medium" => (call.box_size = 10 /\ call.border = 4)
        /\ size_var = "Large" => (call.box_size = 15 /\ call.border = 6)
        /\ size_var \notin {"Small", "Medium", "Large"}
               => (call.box_size = 10 /\ call.border = 4)
        /\ error_var = "Low" => call.error_correction = "ERROR_CORRECT_L"
        /\ error_var = "Medium" => call.error_correction = "ERROR_CORRECT_M"
        /\ error_var = "High" => call.error_correction = "ERROR_CORRECT_Q"
        /\ error_var = "Highest" => call.error_correction = "ERROR_CORRECT_H"
        /\ error_var \notin {"Low", "Medium", "High", "Highest"}
               => call.error_correction = "ERROR_CORRECT_M"

\* C8: the encoder is called with the parameters of the fixed table, and
\* with (10,4) and M for any other or missing tier value; resolving leaves
\* the tier variables alone.
C8_ResolverTable ==
    /\ []C8_Table
    /\ [][last'.encoder # <<>> => UNCHANGED <<size_var, error_var>>]_vars

\* The encoder was called with an unrecognised size and a missing level.
C8_Witness ==
    /\ last.encoder # <<>>
    /\ size_var = "Huge"
    /\ error_var = ""

ErrorResults ==
    {"empty_input", "encoder_raised", "display_raised", "no_artifact", "write_raised"}

\* C9 as stated: every error outcome shows a message and sets the status
\* line to an error text.
C9_EveryErrorSetsStatus ==
    last.result \in ErrorResults
        => /\ last.msgbox # <<>>
           /\ status_var.text \in {"Error generating QR code", "Error saving QR code"}

\* C9 amended: every error outcome shows a message; an encoder, display or
\* write failure also sets the status line to its error text, while empty
\* input and no artifact leave the status line as it was.
C9_ErrorsShown ==
    /\ [](/\ last.result \in ErrorResults => Len(last.msgbox) = 1
          /\ last.result \in {"encoder_raised", "display_raised"}
                => (last.msgbox = <<GenerateError>>
                    /\ status_var.text = "Error generating QR code")
          /\ last.result = "write_raised"
                => (last.msgbox = <<SaveError>>
                    /\ status_var.text = "Error saving QR code")
          /\ last.result = "empty_input" => last.msgbox = <<EmptyInputError>>
          /\ last.result = "no_artifact" => last.msgbox = <<NoArtifactWarning>>)
    /\ [][last'.result \in {"empty_input", "no_artifact"}
            => UNCHANGED status_var]_vars

\* An empty input was rejected while the status line still reports success.
C9_Witness ==
    /\ last.result = "empty_input"
    /\ status_var.text = "QR code generated successfully for: {}..."

\* C10: while a generate is between reading the entry and storing its
\* artifact, no generate, save or clear callback has run.
C10_NoCallbackDuringGenerate ==
    stack # <<>>
        => /\ Len(stack) = 1
           /\ \/ (last.op = "generate_qr_code" /\ last.result = "pumping")
              \/ last.op \in {"url_entry", "size_combo", "error_combo"}

====
